---- MODULE Spec2Model ----
(***************************************************************************)
(* Lazy cells (suspensions) of trvswgnr/lazy.                              *)
(*                                                                         *)
(* Three implementations live in the repository and are modelled side by   *)
(* side, driven by the same sequence of calls:                             *)
(*   "FP"    the functional facade, src/Lazy.ts (= src/unnamed/part_000),  *)
(*           a plain object whose keys Suspension / Value / Exception are  *)
(*           present or absent;                                            *)
(*   "Lazy"  the class Lazy of src/LazyOOP.ts lines 8-71, whose fields are *)
(*           cleared by writing `undefined`;                               *)
(*   "_Lazy" the class _Lazy of src/LazyOOP.ts lines 122-187, whose fields *)
(*           are cleared by writing the private symbol None.               *)
(***************************************************************************)
EXTENDS Integers, Sequences, FiniteSets, TLC

VARIABLES heap, calls, fcalls, log, nextId, last, hist, stack

vars == <<heap, calls, fcalls, log, nextId, last, hist, stack>>

\* ---------------------------------------------------------------- bounds
MaxCells == 2
\* the number of nested entries of a closure the call stack has room for
MaxStack == 3
\* the number of cells derived from one source
MaxDerived == 2
\* the number of cells derived one from the other in a chain
MaxChain == 2

Facades == {"FP", "Lazy", "_Lazy"}

\* ------------------------------------------------------------ JS values
\* Every JavaScript value of the model has the same shape.  `id` is the
\* identity of an object created by `new`; primitives have id 0.
JS(tag, n, msg, id) == [tag |-> tag, n |-> n, msg |-> msg, id |-> id]

\* the JavaScript value `undefined`
Undef == JS("undefined", 0, "", 0)
\* a missing key (FP) / the private symbol None (_Lazy)
None == JS("None", 0, "", 0)
Num(k) == JS("number", k, "", 0)
Str(s) == JS("string", 0, s, 0)
Error(msg, id) == JS("Error", 0, msg, id)
Undefined(msg, id) == JS("Lazy.Undefined", 0, msg, id)

\* e instanceof Error
instanceofError(e) == e.tag \in {"Error", "Lazy.Undefined"}

Digits == <<"0", "1", "2", "3", "4", "5", "6", "7", "8", "9">>

\* String(e), for the values of the model (numbers are single digits)
String(e) ==
    CASE e.tag = "undefined" -> "undefined"
      [] e.tag = "number" -> Digits[e.n + 1]
      [] e.tag = "string" -> e.msg
      [] OTHER -> "Error: " \o e.msg

\* The values a computation of the model returns.
Values == {Undef, Num(0)}

\* -------------------------------------------------------------- closures
\* A stored computation.  "thunk": a caller's closure that returns v
\* (out = "return"), throws a fresh Error (out = "throwError") or throws
\* the non-error value v (out = "throwValue").  "compose": the closure
\* () => f(force(x)) built by map and mapVal, x being slot `of`.  "void":
\* the closure () => void 0 that the classes' fromVal hands the constructor.
Closure(tag, out, v, f, of) == [tag |-> tag, out |-> out, v |-> v, f |-> f, of |-> of]
Thunk(out, v) == Closure("thunk", out, v, "", 0)
Compose(f, of) == Closure("compose", "", None, f, of)
\* the closure of map(h, x) for h = v => g(f(v)); `out` names g
ComposeAfter(g, f, of) == Closure("compose", g, None, f, of)
Void == Closure("void", "", None, "", 0)
NoClosure(tag) == Closure(tag, "", None, "", 0)

Thunks == {Thunk("return", v) : v \in Values}
            \cup {Thunk("throwError", None)}
            \cup {Thunk("throwValue", v) : v \in {Undef, Num(7)}}

\* Computations that force the cell they are the computation of:
\*   self       () => force(x)
\*   selfOnce   () => first ? (first = false, force(x) + 1) : 0
\*   selfCatch  () => { if (!first) throw new Error("boom");
\*                      first = false; try { force(x) } catch {}; return 5 }
\* x being the cell made from the closure, and first a flag of the closure.
SelfThunks == {Thunk(out, None) : out \in {"self", "selfOnce", "selfCatch"}}

\* The functions the callers map: succ adds one to a number (and leaves
\* anything else alone), undef returns undefined, boom throws a new Error.
Fns == {"succ", "undef", "boom"}

\* ---------------------------------------------------------------- cells
\* What an unset field holds: nothing at all in FP (the key is absent),
\* `undefined` in class Lazy, the symbol None in class _Lazy.
Empty(fac) == IF fac = "Lazy" THEN Undef ELSE None

Cell(sus, val, exc) == [live |-> TRUE, sus |-> sus, val |-> val, exc |-> exc]
\* The variable of a caller whose call raised instead of returning a cell.
NoCell == [live |-> FALSE, sus |-> NoClosure("None"), val |-> None, exc |-> None]

\* a result handed back to a caller: the world after the call, and what
\* was returned or thrown
Ret(w, v) == [w |-> w, kind |-> "ret", v |-> v]
Throw(w, e) == [w |-> w, kind |-> "throw", v |-> e]

\* function Lazy(sus) / constructor(sus)
Lazy(fac, sus) == Cell(sus, Empty(fac), Empty(fac))

isVal(fac, x) ==
    CASE fac = "FP" -> x.val.tag # "None"
      [] fac = "Lazy" -> x.val.tag # "undefined"
      [] OTHER -> x.val.tag # "None"

isException(fac, x) ==
    CASE fac = "FP" -> x.exc.tag # "None"
      [] fac = "Lazy" -> x.exc.tag # "undefined"
      [] OTHER -> x.exc.tag # "None"

isSuspension(fac, x) ==
    CASE fac = "FP" -> x.sus.tag # "None"
      [] fac = "Lazy" -> x.sus.tag # "undefined"
      [] OTHER -> x.sus.tag # "None"

\* errorFrom without the instanceof test: every caught object is wrapped
errorFromAlways(w, e) ==
    [w |-> [w EXCEPT !.nextId = @ + 1], e |-> Error(String(e), w.nextId)]

\* errorFrom(e) of LazyOOP.ts
errorFrom(w, e) ==
    IF instanceofError(e) THEN [w |-> w, e |-> e]
    ELSE [w |-> [w EXCEPT !.nextId = @ + 1], e |-> Error(String(e), w.nextId)]

\* f(v), for the closure or the eager call of slot i
apply(w, i, f, v) ==
    LET w1 == [w EXCEPT !.fcalls[i] = @ + 1, !.log = Append(@, <<"f", i>>)] IN
    CASE f = "succ" -> Ret(w1, IF v.tag = "number" THEN Num(v.n + 1) ELSE v)
      [] f = "undef" -> Ret(w1, Undef)
      [] OTHER -> Throw([w1 EXCEPT !.nextId = @ + 1], Error("test", w1.nextId))

\* h(v) for h = v => g(f(v)), for the closure of slot i
After(w, i, g, f, v) ==
    LET a == apply(w, i, f, v) IN
    IF a.kind = "throw" THEN a ELSE apply(a.w, i, g, a.v)

RECURSIVE force(_, _, _)

\* The call stack is exhausted: the engine throws a new RangeError (an
\* Error) instead of making the call.
stackOverflow(w) ==
    Throw([w EXCEPT !.nextId = @ + 1],
          Error("Maximum call stack size exceeded", w.nextId))

\* a[Suspension]() for the cell of slot i
invoke(fac, w, i) ==
    LET s == w.heap[i].sus
        w1 == [w EXCEPT !.calls[i] = @ + 1]
    IN  CASE s.tag = "thunk" ->
               LET w2 == [w1 EXCEPT !.log = Append(@, <<"x", i>>)] IN
               CASE s.out = "return" -> Ret(w2, s.v)
                 [] s.out = "throwError" ->
                        Throw([w2 EXCEPT !.nextId = @ + 1], Error("boom", w2.nextId))
                 [] s.out = "self" ->
                        IF w.calls[i] >= MaxStack THEN stackOverflow(w)
                        ELSE force(fac, w2, i)
                 [] s.out = "selfOnce" ->
                        IF w.calls[i] >= 1 THEN Ret(w2, Num(0))
                        ELSE LET r == force(fac, w2, i) IN
                             IF r.kind = "throw" THEN r ELSE Ret(r.w, Num(r.v.n + 1))
                 [] s.out = "selfCatch" ->
                        IF w.calls[i] >= 1
                        THEN Throw([w2 EXCEPT !.nextId = @ + 1], Error("boom", w2.nextId))
                        ELSE Ret(force(fac, w2, i).w, Num(5))
                 [] OTHER -> Throw(w2, s.v)
          [] s.tag = "compose" ->
               LET r == force(fac, w1, s.of) IN
               IF r.kind = "throw" THEN r
               ELSE IF s.out = "" THEN apply(r.w, i, s.f, r.v)
               ELSE After(r.w, i, s.out, s.f, r.v)
          [] OTHER -> Ret(w1, Undef)

\* force with a catch block that swallows the exception
storeValueOnly(fac, r, i) ==
    IF r.kind = "ret" THEN [r.w EXCEPT !.heap[i].val = r.v] ELSE r.w

\* force that stores the value in the cells derived from the cell as well
storeDerived(fac, r, i) ==
    IF r.kind = "ret"
    THEN [r.w EXCEPT !.heap =
            [k \in DOMAIN r.w.heap |->
                IF k = i \/ (r.w.heap[k].sus.tag = "compose" /\ r.w.heap[k].sus.of = i)
                THEN [r.w.heap[k] EXCEPT !.val = r.v]
                ELSE r.w.heap[k]]]
    ELSE IF fac = "FP"
    THEN [r.w EXCEPT !.heap[i].exc = r.v]
    ELSE LET n == errorFrom(r.w, r.v) IN [n.w EXCEPT !.heap[i].exc = n.e]

\* the try / catch of force: the outcome of the computation stored in the
\* cell.  Lazy.ts stores the caught e as it is, the classes errorFrom(e).
store(fac, r, i) ==
    IF r.kind = "ret"
    THEN [r.w EXCEPT !.heap[i].val = r.v]
    ELSE IF fac = "FP"
    THEN [r.w EXCEPT !.heap[i].exc = r.v]
    ELSE LET n == errorFrom(r.w, r.v) IN [n.w EXCEPT !.heap[i].exc = n.e]

\* force with the suspension left in the cell
discardNothing(fac, w, i) == w

\* delete a[Suspension] / x[Suspension] = undefined / x[Suspension] = None
discard(fac, w, i) == [w EXCEPT !.heap[i].sus = NoClosure(Empty(fac).tag)]

\* the last two statements of the Suspension branch of force
outcome(fac, w, i) ==
    IF isException(fac, w.heap[i]) THEN Throw(w, w.heap[i].exc)
    ELSE Ret(w, w.heap[i].val)

\* the fall-through of force throwing the error without keeping it
undefinedLazyUnrecorded(fac, w, i) ==
    LET e == Undefined("expected computation, but got a value", w.nextId)
    IN  Throw([w EXCEPT !.nextId = @ + 1], e)

\* the fall-through of force: no value, no exception, no suspension
undefinedLazy(fac, w, i) ==
    LET e == Undefined("expected computation, but got a value", w.nextId)
    IN  Throw([w EXCEPT !.heap[i].exc = e, !.nextId = @ + 1], e)

force(fac, w, i) ==
    LET x == w.heap[i] IN
    IF isVal(fac, x) THEN Ret(w, x.val)
    ELSE IF isException(fac, x) THEN Throw(w, x.exc)
    ELSE IF isSuspension(fac, x)
         THEN outcome(fac, discard(fac, store(fac, invoke(fac, w, i), i), i), i)
         ELSE undefinedLazy(fac, w, i)

\* from_val / fromVal
fromVal(fac, v) ==
    IF fac = "FP" THEN Cell(NoClosure("None"), v, None)
    ELSE [Lazy(fac, Void) EXCEPT !.val = v,
                                 !.sus = NoClosure(Empty(fac).tag),
                                 !.exc = Empty(fac)]

\* a slot added to the world, holding cell c
alloc(w, c) == [w EXCEPT !.heap = Append(@, c),
                         !.calls = Append(@, 0),
                         !.fcalls = Append(@, 0)]

\* mapVal that forces its receiver to find out whether it has a value
mapValForcing(fac, w, f, i) ==
    LET r == force(fac, w, i)
        n == Len(r.w.heap) + 1
    IN  IF r.kind = "throw" THEN Ret(alloc(r.w, Lazy(fac, Compose(f, i))), None)
        ELSE LET a == apply(alloc(r.w, NoCell), n, f, r.v) IN
             IF a.kind = "throw" THEN a
             ELSE Ret([a.w EXCEPT !.heap[n] = fromVal(fac, a.v)], None)

\* mapVal that takes every cell without a computation for an evaluated one
mapValSettled(fac, w, f, i) ==
    LET x == w.heap[i]
        n == Len(w.heap) + 1
    IN  IF ~isSuspension(fac, x)
        THEN LET r == apply(alloc(w, NoCell), n, f, x.val) IN
             IF r.kind = "throw" THEN r
             ELSE Ret([r.w EXCEPT !.heap[n] = fromVal(fac, r.v)], None)
        ELSE Ret(alloc(w, Lazy(fac, Compose(f, i))), None)

\* map_val / mapVal
mapVal(fac, w, f, i) ==
    LET x == w.heap[i]
        n == Len(w.heap) + 1
    IN  IF isVal(fac, x)
        THEN LET r == apply(alloc(w, NoCell), n, f, x.val) IN
             IF r.kind = "throw" THEN r
             ELSE Ret([r.w EXCEPT !.heap[n] = fromVal(fac, r.v)], None)
        ELSE Ret(alloc(w, Lazy(fac, Compose(f, i))), None)

\* map that forces its operand before it makes the new cell
mapForcing(fac, w, f, i) ==
    Ret(alloc(force(fac, w, i).w, Lazy(fac, Compose(f, i))), None)

\* map that applies f at once when x is already forced, as mapVal does
mapEager(fac, w, f, i) == mapVal(fac, w, f, i)

\* map(f, x): the new cell goes to slot Len(heap) + 1
map(fac, w, f, i) == Ret(alloc(w, Lazy(fac, Compose(f, i))), None)

\* ------------------------------------------------------------ the system
\* heap, calls, fcalls, log and nextId are the program, one copy per facade:
\* the cells the caller holds (slot by slot), how often the closure of each
\* slot and the mapped function of each slot were called, the order of these
\* side effects, and the identity the next `new` object gets.  last is what
\* the latest call handed back.  hist records, per slot, the call that made
\* the cell and what the caller saw of its forces.
World(fac) == [heap |-> heap[fac], calls |-> calls[fac], fcalls |-> fcalls[fac],
               log |-> log[fac], nextId |-> nextId[fac]]

Result(op, i, kind, v) == [op |-> op, cell |-> i, kind |-> kind, v |-> v]

\* op: the call that filled the slot; kind, v: what the first force the
\* caller made on it handed back; again: the caller forced it once more.
Born(op) == [op |-> op, kind |-> "none", v |-> None, again |-> FALSE]

\* One call made on every facade: res[fac] is what the facade did.
Commit(op, i, res) ==
    /\ heap' = [fac \in Facades |-> res[fac].w.heap]
    /\ calls' = [fac \in Facades |-> res[fac].w.calls]
    /\ fcalls' = [fac \in Facades |-> res[fac].w.fcalls]
    /\ log' = [fac \in Facades |-> res[fac].w.log]
    /\ nextId' = [fac \in Facades |-> res[fac].w.nextId]
    /\ last' = [fac \in Facades |-> Result(op, i, res[fac].kind, res[fac].v)]
    /\ stack' = stack

NumSlots == Len(heap["FP"])
Slots == 1..NumSlots

\* A call on a variable that holds no cell cannot be written by the caller.
Skip(fac) == [w |-> World(fac), kind |-> "none", v |-> None]
On(fac, i, r) == IF heap[fac][i].live THEN r ELSE Skip(fac)

Init ==
    /\ heap = [fac \in Facades |-> <<>>]
    /\ calls = [fac \in Facades |-> <<>>]
    /\ fcalls = [fac \in Facades |-> <<>>]
    /\ log = [fac \in Facades |-> <<>>]
    /\ nextId = [fac \in Facades |-> 1]
    /\ last = [fac \in Facades |-> Result("init", 0, "none", None)]
    /\ hist = [fac \in Facades |-> <<>>]
    /\ stack = [fac \in Facades |-> <<>>]

\* x = Lazy(sus)
Construct(sus) ==
    /\ NumSlots < MaxCells
    /\ Commit("Lazy", NumSlots + 1,
              [fac \in Facades |-> Ret(alloc(World(fac), Lazy(fac, sus)), None)])
    /\ hist' = [fac \in Facades |-> Append(hist[fac], Born("Lazy"))]

\* x = fromVal(v)
FromVal(v) ==
    /\ NumSlots < MaxCells
    /\ Commit("fromVal", NumSlots + 1,
              [fac \in Facades |-> Ret(alloc(World(fac), fromVal(fac, v)), None)])
    /\ hist' = [fac \in Facades |-> Append(hist[fac], Born("fromVal"))]

\* force(x), x the cell of slot i
Force(i) ==
    /\ Commit("force", i, [fac \in Facades |-> On(fac, i, force(fac, World(fac), i))])
    /\ hist' = [fac \in Facades |->
                  IF ~heap[fac][i].live THEN hist[fac]
                  ELSE IF hist[fac][i].kind = "none"
                  THEN [hist[fac] EXCEPT ![i].kind = last'[fac].kind,
                                         ![i].v = last'[fac].v]
                  ELSE [hist[fac] EXCEPT ![i].again = TRUE]]

\* y = map(f, x)
MapCell(f, i) ==
    /\ Commit("map", NumSlots + 1,
              [fac \in Facades |->
                  IF heap[fac][i].live THEN map(fac, World(fac), f, i)
                  ELSE [Skip(fac) EXCEPT !.w = alloc(World(fac), NoCell)]])
    /\ hist' = [fac \in Facades |-> Append(hist[fac], Born("map"))]

Map(f, i) == NumSlots < MaxCells /\ MapCell(f, i)

\* y = mapVal(f, x)
MapValCell(f, i) ==
    /\ Commit("mapVal", NumSlots + 1,
              [fac \in Facades |->
                  IF heap[fac][i].live THEN mapVal(fac, World(fac), f, i)
                  ELSE [Skip(fac) EXCEPT !.w = alloc(World(fac), NoCell)]])
    /\ hist' = [fac \in Facades |-> Append(hist[fac], Born("mapVal"))]

MapVal(f, i) == NumSlots < MaxCells /\ MapValCell(f, i)

\* isVal(x)
IsVal(i) ==
    /\ Commit("isVal", i,
              [fac \in Facades |->
                  On(fac, i, [w |-> World(fac), kind |-> "ret",
                              v |-> Num(IF isVal(fac, heap[fac][i]) THEN 1 ELSE 0)])])
    /\ UNCHANGED hist

Next ==
    \/ \E sus \in Thunks : Construct(sus)
    \/ \E v \in Values : FromVal(v)
    \/ \E i \in Slots : Force(i)
    \/ \E f \in Fns, i \in Slots : Map(f, i)
    \/ \E f \in Fns, i \in Slots : MapVal(f, i)
    \/ \E i \in Slots : IsVal(i)

Spec == Init /\ [][Next]_vars

\* the callers also make cells whose computation forces its own cell
NextReentrant ==
    \/ Next
    \/ \E sus \in SelfThunks : Construct(sus)

SpecReentrant == Init /\ [][NextReentrant]_vars

\* One source and the cells derived from it: the callers make one cell x,
\* from a computation or from a value, and then cells map(f, x) and
\* mapVal(f, x), which they force in any order.
Source(sus) == NumSlots = 0 /\ Construct(sus)
SourceVal(v) == NumSlots = 0 /\ FromVal(v)
DeriveMap(f) == NumSlots \in 1..MaxDerived /\ MapCell(f, 1)
DeriveMapVal(f) == NumSlots \in 1..MaxDerived /\ MapValCell(f, 1)

NextDerived ==
    \/ \E sus \in Thunks : Source(sus)
    \/ \E v \in Values : SourceVal(v)
    \/ \E f \in Fns : DeriveMap(f)
    \/ \E f \in Fns : DeriveMapVal(f)
    \/ \E i \in Slots : Force(i)
    \/ \E i \in Slots : IsVal(i)

SpecDerived == Init /\ [][NextDerived]_vars

\* The two sides of the composition law: the callers make one cell x, then
\* y = map(f, x), z = map(g, y) and u = map(h, x) for h = v => g(f(v)), and
\* force the four cells in any order.
Inner(f) == NumSlots = 1 /\ MapCell(f, 1)
Outer(g) == NumSlots = 2 /\ MapCell(g, 2)
Fused ==
    /\ NumSlots = 3
    /\ \A fac \in Facades :
          isSuspension(fac, heap[fac][2]) /\ isSuspension(fac, heap[fac][3])
    /\ Commit("map", 4,
              [fac \in Facades |->
                  Ret(alloc(World(fac),
                            Lazy(fac, ComposeAfter(heap[fac][3].sus.f,
                                                   heap[fac][2].sus.f, 1))), None)])
    /\ hist' = [fac \in Facades |-> Append(hist[fac], Born("map"))]

NextCompose ==
    \/ \E sus \in Thunks : Source(sus)
    \/ \E v \in Values : SourceVal(v)
    \/ \E f \in Fns : Inner(f)
    \/ \E g \in Fns : Outer(g)
    \/ Fused
    \/ \E i \in Slots : Force(i)

SpecCompose == Init /\ [][NextCompose]_vars

\* force in steps.  stack[fac] holds the calls of force that have not
\* handed back yet, the latest last: the cell each is on, whether it has
\* entered the closure of map (phase "called") and, then, what the force of
\* the operand handed back to that closure.  In the specifications above
\* a force is one step and the stack stays empty.
Frame(i) == [cell |-> i, phase |-> "enter", kind |-> "none", v |-> None]

\* no force is running
Idle == \A fac \in Facades : stack[fac] = <<>>

\* the caller of the force that hands back r: the closure below it, if any
Return(below, r) ==
    IF below = <<>> THEN below
    ELSE [below EXCEPT ![Len(below)].kind = r.kind, ![Len(below)].v = r.v]

\* One step of the latest call of force.  On a Pending cell that holds the
\* closure () => f(force(x)) it enters the closure, which calls force(x);
\* when that has handed back, the closure calls f or lets the exception
\* pass, and force stores the outcome, discards the closure and hands
\* back.  On any other cell force runs to its end at once.
StepOf(fac) ==
    LET s == stack[fac]
        w == World(fac)
    IN  IF s = <<>> THEN [w |-> w, stack |-> s, kind |-> "none", v |-> None]
        ELSE
        LET top == s[Len(s)]
            t == top.cell
            x == w.heap[t]
            below == SubSeq(s, 1, Len(s) - 1)
        IN  IF /\ top.phase = "enter" /\ x.sus.tag = "compose"
               /\ ~isVal(fac, x) /\ ~isException(fac, x) /\ isSuspension(fac, x)
            THEN [w |-> [w EXCEPT !.calls[t] = @ + 1],
                  stack |-> Append(Append(below, [top EXCEPT !.phase = "called"]),
                                   Frame(x.sus.of)),
                  kind |-> "none", v |-> None]
            ELSE
            LET r == IF top.phase = "enter" THEN force(fac, w, t)
                     ELSE LET c == IF top.kind = "throw" THEN Throw(w, top.v)
                                   ELSE IF x.sus.out = ""
                                   THEN apply(w, t, x.sus.f, top.v)
                                   ELSE After(w, t, x.sus.out, x.sus.f, top.v)
                          IN  outcome(fac, discard(fac, store(fac, c, t), t), t)
            IN  [w |-> r.w, stack |-> Return(below, r), kind |-> r.kind, v |-> r.v]

\* the caller calls force(x), x the cell of slot i
Begin(i) ==
    /\ Idle
    /\ \E fac \in Facades : heap[fac][i].live
    /\ stack' = [fac \in Facades |->
                   IF heap[fac][i].live THEN <<Frame(i)>> ELSE <<>>]
    /\ UNCHANGED <<heap, calls, fcalls, log, nextId, last, hist>>

\* every running force takes its next step
Step ==
    /\ ~Idle
    /\ LET n == [fac \in Facades |-> StepOf(fac)]
           back == [fac \in Facades |-> stack[fac] # <<>> /\ n[fac].stack = <<>>]
       IN  /\ heap' = [fac \in Facades |-> n[fac].w.heap]
           /\ calls' = [fac \in Facades |-> n[fac].w.calls]
           /\ fcalls' = [fac \in Facades |-> n[fac].w.fcalls]
           /\ log' = [fac \in Facades |-> n[fac].w.log]
           /\ nextId' = [fac \in Facades |-> n[fac].w.nextId]
           /\ stack' = [fac \in Facades |-> n[fac].stack]
           /\ last' = [fac \in Facades |->
                         IF back[fac]
                         THEN Result("force", stack[fac][1].cell, n[fac].kind, n[fac].v)
                         ELSE last[fac]]
           /\ hist' = [fac \in Facades |->
                         IF ~back[fac] THEN hist[fac]
                         ELSE LET i == stack[fac][1].cell IN
                              IF hist[fac][i].kind = "none"
                              THEN [hist[fac] EXCEPT ![i].kind = n[fac].kind,
                                                     ![i].v = n[fac].v]
                              ELSE [hist[fac] EXCEPT ![i].again = TRUE]]

\* A chain: the callers make one cell, then cells map(f, x) and
\* mapVal(f, x), each from the cell made last, and force any of them; while
\* a force is running they make no other call.
Link(f) == Idle /\ NumSlots \in 1..MaxChain /\ MapCell(f, NumSlots)
LinkVal(f) == Idle /\ NumSlots \in 1..MaxChain /\ MapValCell(f, NumSlots)

NextChain ==
    \/ \E sus \in Thunks : Source(sus)
    \/ \E v \in Values : SourceVal(v)
    \/ \E f \in Fns : Link(f)
    \/ \E f \in Fns : LinkVal(f)
    \/ \E i \in Slots : Begin(i)
    \/ Step

\* a force that has been called goes on running
SpecChain == Init /\ [][NextChain]_vars /\ WF_vars(Step)

TypeOK ==
    \A fac \in Facades :
        /\ Len(heap[fac]) = NumSlots
        /\ Len(calls[fac]) = NumSlots
        /\ Len(fcalls[fac]) = NumSlots
        /\ Len(hist[fac]) = NumSlots
        /\ NumSlots <= MaxCells

\* ------------------------------------------------------------ the claims
\* The three variants of a cell, as the tests of force tell them apart.
Done(fac, x) == isVal(fac, x)
Failed(fac, x) == ~isVal(fac, x) /\ isException(fac, x)
Pending(fac, x) == ~isVal(fac, x) /\ ~isException(fac, x) /\ isSuspension(fac, x)

\* the slots of cells built from a computation: by Lazy(f) or by map
Built(fac) == {i \in Slots : heap[fac][i].live /\ hist[fac][i].op \in {"Lazy", "map"}}

\* the step just taken was force on slot i, a cell of facade fac
Forced(fac, i) == last'[fac].op = "force" /\ last'[fac].cell = i /\ heap[fac][i].live

\* C1: single evaluation.  The computation of a cell built from a
\* computation is never invoked while the cell is still pending, has been
\* invoked exactly once as soon as the caller has forced the cell, and is
\* never invoked a second time, whether it returned or raised.
C1_SingleEvaluation ==
    \A fac \in Facades : \A i \in Built(fac) :
        /\ calls[fac][i] <= 1
        /\ hist[fac][i].kind # "none" => calls[fac][i] = 1
        /\ Pending(fac, heap[fac][i]) => calls[fac][i] = 0

\* a cell built by Lazy(f) that the caller forced twice, in every facade
C1_Witness ==
    \E i \in Slots : \A fac \in Facades :
        /\ i \in Built(fac) /\ hist[fac][i].op = "Lazy"
        /\ hist[fac][i].again /\ calls[fac][i] = 1

\* C2: force is idempotent on a successful cell.  When the first force of
\* a cell returned v, a later force of that cell returns v again, in every
\* facade and for every v, undefined included.
C2_ForceIdempotent ==
    \A fac \in Facades : \A i \in Slots :
        (/\ heap[fac][i].live
         /\ last[fac].op = "force" /\ last[fac].cell = i
         /\ hist[fac][i].kind = "ret")
        => last[fac].kind = "ret" /\ last[fac].v = hist[fac][i].v

\* C3: error memoization.  A force of a pending cell whose computation
\* raises, raises to its caller and leaves the cell Failed, holding the
\* object it raised; and once the first force of a cell built from a
\* computation has raised, every later force raises that same object,
\* runs nothing and changes nothing.
C3_FirstForce(fac, i) ==
    (Pending(fac, heap[fac][i]) /\ invoke(fac, World(fac), i).kind = "throw")
    => /\ last'[fac].kind = "throw"
       /\ Failed(fac, heap'[fac][i])
       /\ heap'[fac][i].exc = last'[fac].v
       /\ ~isSuspension(fac, heap'[fac][i])
       /\ calls'[fac][i] = 1

C3_LaterForce(fac, i) ==
    (i \in Built(fac) /\ hist[fac][i].kind = "throw")
    => /\ last'[fac].kind = "throw"
       /\ last'[fac].v = hist[fac][i].v
       /\ heap'[fac] = heap[fac]
       /\ calls'[fac] = calls[fac] /\ fcalls'[fac] = fcalls[fac]
       /\ log'[fac] = log[fac]

C3_ErrorMemoization ==
    [][\A fac \in Facades : \A i \in Slots :
          Forced(fac, i) => C3_FirstForce(fac, i) /\ C3_LaterForce(fac, i)]_vars

\* a cell whose computation raised, forced again by the caller, in every facade
C3_Witness ==
    \E i \in Slots : \A fac \in Facades :
        /\ i \in Built(fac) /\ hist[fac][i].kind = "throw" /\ hist[fac][i].again
        /\ last[fac].op = "force" /\ last[fac].cell = i
        /\ last[fac].kind = "throw" /\ last[fac].v = hist[fac][i].v
        /\ calls[fac][i] = 1

\* C4: permanence of the outcome.  Once the computation of a cell has
\* been run (the cell has left Pending), no later call changes the cell:
\* not its variant, not its value, not its error.
C4_In(fac) ==
    \A i \in Slots :
        (heap[fac][i].live /\ calls[fac][i] >= 1)
        => heap'[fac][i] = heap[fac][i]

C4_Permanence == [][\A fac \in Facades : C4_In(fac)]_vars

\* the fields of a cell that are set
Holds(fac, x) ==
    {k \in {"Suspension", "Value", "Exception"} :
        \/ k = "Suspension" /\ isSuspension(fac, x)
        \/ k = "Value" /\ isVal(fac, x)
        \/ k = "Exception" /\ isException(fac, x)}

\* C5: exactly one variant.  Between calls every cell holds exactly one of
\* a pending computation, a memoized value and a memoized error.
C5_In(fac) ==
    \A i \in Slots : heap[fac][i].live => Cardinality(Holds(fac, heap[fac][i])) = 1

C5_ExactlyOneVariant == \A fac \in Facades : C5_In(fac)

\* C6: construction from a computation is lazy.  Lazy(f) runs nothing and
\* returns a Pending cell; a cell built by Lazy(f) is not evaluated as long
\* as its computation has not run; after a force that returned a value it
\* is evaluated.
C6_In(fac) ==
    /\ last'[fac].op = "Lazy" =>
          /\ log'[fac] = log[fac] /\ nextId'[fac] = nextId[fac]
          /\ calls'[fac] = Append(calls[fac], 0)
          /\ fcalls'[fac] = Append(fcalls[fac], 0)
          /\ heap[fac] = SubSeq(heap'[fac], 1, NumSlots)
          /\ Pending(fac, heap'[fac][NumSlots + 1])
    /\ \A i \in Slots :
          (heap[fac][i].live /\ hist[fac][i].op = "Lazy") =>
             /\ calls[fac][i] = 0 => ~isVal(fac, heap[fac][i])
             /\ (Forced(fac, i) /\ last'[fac].kind = "ret")
                   => isVal(fac, heap'[fac][i])

C6_LazyConstruction == [][\A fac \in Facades : C6_In(fac)]_vars

\* C7: fromVal.  The cell of fromVal(v) is evaluated and holds v, for
\* every v; it never changes, no computation is ever run for it, and every
\* force of it returns v and runs nothing.
C7_In(fac) ==
    /\ \A v \in Values :
          FromVal(v) => /\ isVal(fac, heap'[fac][NumSlots + 1])
                        /\ heap'[fac][NumSlots + 1].val = v
                        /\ log'[fac] = log[fac]
    /\ \A i \in Slots :
          (heap[fac][i].live /\ hist[fac][i].op = "fromVal") =>
             /\ isVal(fac, heap[fac][i])
             /\ heap'[fac][i] = heap[fac][i]
             /\ calls'[fac][i] = 0
             /\ Forced(fac, i) => /\ last'[fac].kind = "ret"
                                  /\ last'[fac].v = heap[fac][i].val
                                  /\ log'[fac] = log[fac]

C7_FromVal == [][\A fac \in Facades : C7_In(fac)]_vars

\* C8: isVal answers true exactly for Done cells.  Right after isVal(x):
\* the answer is false when x is built from a computation that has not run
\* and when the first force of x raised; it is true when the first force of
\* x returned a value and when x was built by fromVal.
C8_In(fac) ==
    \A i \in Slots :
        (heap[fac][i].live /\ last[fac].op = "isVal" /\ last[fac].cell = i) =>
            LET answer == (last[fac].v = Num(1)) IN
            /\ (i \in Built(fac) /\ calls[fac][i] = 0) => ~answer
            /\ hist[fac][i].kind = "throw" => ~answer
            /\ hist[fac][i].kind = "ret" => answer
            /\ hist[fac][i].op = "fromVal" => answer

C8_IsVal == \A fac \in Facades : C8_In(fac)

\* C9: map is lazy.  map(f, x) runs neither f nor any computation, leaves
\* every existing cell as it is and returns a Pending cell, whatever the
\* state of x; and as long as the cell map returned is Pending, neither its
\* closure nor f has been called.
C9_In(fac) ==
    /\ (last'[fac].op = "map" /\ last'[fac].kind = "ret") =>
          /\ log'[fac] = log[fac] /\ nextId'[fac] = nextId[fac]
          /\ calls'[fac] = Append(calls[fac], 0)
          /\ fcalls'[fac] = Append(fcalls[fac], 0)
          /\ heap[fac] = SubSeq(heap'[fac], 1, NumSlots)
          /\ Pending(fac, heap'[fac][NumSlots + 1])
    /\ \A i \in Slots :
          (heap[fac][i].live /\ hist[fac][i].op = "map") =>
             /\ fcalls[fac][i] <= calls[fac][i]
             /\ Pending(fac, heap[fac][i]) => calls[fac][i] = 0

C9_MapLazy == [][\A fac \in Facades : C9_In(fac)]_vars

\* map(f, x) just returned a Pending cell for an x that is Done after one
\* run of its computation, in every facade
C9_Witness ==
    \E i \in Slots : \A fac \in Facades :
        /\ i > 1 /\ heap[fac][i].live /\ hist[fac][i].op = "map"
        /\ last[fac].op = "map" /\ last[fac].cell = i
        /\ Pending(fac, heap[fac][i])
        /\ heap[fac][i].sus.of = 1
        /\ Done(fac, heap[fac][1]) /\ calls[fac][1] = 1
        /\ calls[fac][i] = 0 /\ fcalls[fac][i] = 0

\* C10: order and result of forcing y = map(f, x).  When x and y are
\* Pending, the computation of x returns v and f returns on v, force(y)
\* runs the computation of x, then f, once each, and returns f(v); x is
\* then Done with v and y Done with f(v).  A force of a y that has been
\* forced runs nothing.
C10_In(fac) ==
    \A y \in Slots :
        (Forced(fac, y) /\ hist[fac][y].op = "map") =>
            LET x == heap[fac][y].sus.of
                r == invoke(fac, World(fac), x)
                fv == apply(r.w, y, heap[fac][y].sus.f, r.v)
            IN  /\ (/\ Pending(fac, heap[fac][y]) /\ Pending(fac, heap[fac][x])
                    /\ r.kind = "ret" /\ fv.kind = "ret")
                   => /\ last'[fac].kind = "ret" /\ last'[fac].v = fv.v
                      /\ log'[fac] = Append(r.w.log, <<"f", y>>)
                      /\ calls'[fac][x] = 1 /\ fcalls'[fac][y] = 1
                      /\ Done(fac, heap'[fac][x]) /\ heap'[fac][x].val = r.v
                      /\ Done(fac, heap'[fac][y]) /\ heap'[fac][y].val = fv.v
                /\ calls[fac][y] >= 1
                   => /\ log'[fac] = log[fac]
                      /\ calls'[fac] = calls[fac]
                      /\ fcalls'[fac] = fcalls[fac]

C10_MapOrder == [][\A fac \in Facades : C10_In(fac)]_vars

\* C11: map propagates the failure of its receiver.  When the force of a
\* Pending y = map(f, x) leaves x Failed (forcing x failed, with e), it has
\* not called f and raises e itself, and x and y are then both Failed
\* holding e; a later force of y raises e again and calls nothing.
C11_In(fac) ==
    \A y \in Slots :
        (Forced(fac, y) /\ hist[fac][y].op = "map") =>
            LET x == heap[fac][y].sus.of IN
            /\ (Pending(fac, heap[fac][y]) /\ Failed(fac, heap'[fac][x]))
               => /\ fcalls'[fac][y] = 0
                  /\ last'[fac].kind = "throw"
                  /\ last'[fac].v = heap'[fac][x].exc
                  /\ Failed(fac, heap'[fac][y])
                  /\ heap'[fac][y].exc = heap'[fac][x].exc
                  /\ Failed(fac, heap[fac][x]) => heap'[fac][x] = heap[fac][x]
            /\ Failed(fac, heap[fac][y])
               => /\ last'[fac].kind = "throw"
                  /\ last'[fac].v = heap[fac][y].exc
                  /\ heap'[fac] = heap[fac]
                  /\ fcalls'[fac] = fcalls[fac] /\ calls'[fac] = calls[fac]

C11_MapFailure == [][\A fac \in Facades : C11_In(fac)]_vars

\* y = map(f, x) forced twice, x and y Failed with the same error, f never
\* called, in every facade
C11_Witness ==
    \A fac \in Facades :
        /\ NumSlots = 2 /\ heap[fac][2].live /\ hist[fac][2].op = "map"
        /\ hist[fac][2].kind = "throw" /\ hist[fac][2].again
        /\ hist[fac][1].op = "Lazy" /\ hist[fac][1].kind = "none"
        /\ Failed(fac, heap[fac][1]) /\ Failed(fac, heap[fac][2])
        /\ heap[fac][2].exc = heap[fac][1].exc
        /\ last[fac].kind = "throw" /\ last[fac].v = heap[fac][1].exc
        /\ fcalls[fac][2] = 0 /\ calls[fac][1] = 1

\* the step just taken was y = mapVal(f, x), x the cell of slot i
MapValOn(fac, f, i) == MapVal(f, i) /\ heap[fac][i].live

\* the slots of the cells mapVal returned for a receiver that was evaluated:
\* f has run for them although their own closure never has
Eager(fac) ==
    {y \in Slots : /\ heap[fac][y].live /\ hist[fac][y].op = "mapVal"
                   /\ fcalls[fac][y] = 1 /\ calls[fac][y] = 0}

\* C12: the eager path of mapVal.  When x is Done with v and f returns on
\* v, mapVal(f, x) calls f once, on v, during the call, runs no computation,
\* leaves the existing cells alone and returns a cell that is Done with
\* f(v); a later force of that cell returns f(v) and calls nothing.
C12_In(fac) ==
    /\ \A f \in Fns, i \in Slots :
          LET n == NumSlots + 1
              fv == apply(alloc(World(fac), NoCell), n, f, heap[fac][i].val)
          IN  (MapValOn(fac, f, i) /\ Done(fac, heap[fac][i]) /\ fv.kind = "ret")
              => /\ last'[fac].kind = "ret"
                 /\ fcalls'[fac] = Append(fcalls[fac], 1)
                 /\ calls'[fac] = Append(calls[fac], 0)
                 /\ log'[fac] = Append(log[fac], <<"f", n>>)
                 /\ heap[fac] = SubSeq(heap'[fac], 1, NumSlots)
                 /\ Done(fac, heap'[fac][n]) /\ heap'[fac][n].val = fv.v
    /\ \A y \in Eager(fac) :
          /\ Done(fac, heap[fac][y])
          /\ Forced(fac, y)
             => /\ last'[fac].kind = "ret" /\ last'[fac].v = heap[fac][y].val
                /\ heap'[fac] = heap[fac] /\ log'[fac] = log[fac]
                /\ calls'[fac] = calls[fac] /\ fcalls'[fac] = fcalls[fac]

C12_MapValEager == [][\A fac \in Facades : C12_In(fac)]_vars

\* C13: the deferred path of mapVal.  When x is Pending, mapVal(f, x) calls
\* neither f nor any computation, does not raise, leaves the existing cells
\* alone and returns the Pending cell map(f, x) would return.  Forcing that
\* cell while x is still Pending runs the computation of x first and then,
\* if it returned v, f on v, once each, and hands back what f did; if the
\* computation of x raised, f is not called.
C13_In(fac) ==
    /\ \A f \in Fns, i \in Slots :
          LET n == NumSlots + 1 IN
          (MapValOn(fac, f, i) /\ Pending(fac, heap[fac][i]))
          => /\ last'[fac].kind = "ret"
             /\ log'[fac] = log[fac] /\ nextId'[fac] = nextId[fac]
             /\ calls'[fac] = Append(calls[fac], 0)
             /\ fcalls'[fac] = Append(fcalls[fac], 0)
             /\ heap'[fac] = map(fac, World(fac), f, i).w.heap
             /\ heap[fac] = SubSeq(heap'[fac], 1, NumSlots)
             /\ Pending(fac, heap'[fac][n]) /\ ~isVal(fac, heap'[fac][n])
    /\ \A y \in Slots :
          (/\ Forced(fac, y) /\ hist[fac][y].op = "mapVal"
           /\ Pending(fac, heap[fac][y])
           /\ Pending(fac, heap[fac][heap[fac][y].sus.of]))
          => LET x == heap[fac][y].sus.of
                 r == invoke(fac, World(fac), x)
                 fv == apply(r.w, y, heap[fac][y].sus.f, r.v)
             IN  /\ calls'[fac][x] = 1 /\ calls'[fac][y] = 1
                 /\ r.kind = "ret"
                    => /\ log'[fac] = Append(r.w.log, <<"f", y>>)
                       /\ fcalls'[fac][y] = 1
                       /\ last'[fac].kind = fv.kind /\ last'[fac].v = fv.v
                 /\ r.kind = "throw"
                    => /\ log'[fac] = r.w.log
                       /\ fcalls'[fac][y] = 0
                       /\ last'[fac].kind = "throw"

C13_MapValDeferred == [][\A fac \in Facades : C13_In(fac)]_vars

\* y = mapVal(f, x) was made while x was Pending and has then been forced:
\* the computation of x ran, then f, once each, in every facade
C13_Witness ==
    \A fac \in Facades :
        /\ NumSlots = 2 /\ heap[fac][2].live
        /\ hist[fac][1].op = "Lazy" /\ hist[fac][1].kind = "none"
        /\ hist[fac][2].op = "mapVal" /\ hist[fac][2].kind = "ret"
        /\ last[fac].op = "force" /\ last[fac].cell = 2
        /\ log[fac] = << <<"x", 1>>, <<"f", 2>> >>
        /\ calls[fac] = <<1, 1>> /\ fcalls[fac] = <<0, 1>>

\* the cell has no computation left and holds no error: its computation
\* returned, or it was made from a value
Returned(fac, x) == ~isSuspension(fac, x) /\ ~isException(fac, x)

\* C14: when f raises, mapVal(f, x) raises out of the call exactly when x is
\* Done at the call (its computation has returned, or it was made from a
\* value); the call then raises the error of f, returns no cell and leaves
\* the error in no cell, x and every other cell being as before.  When x is
\* Pending at the call, the call returns, and the force of the returned
\* cell raises the error of f once x has given its value.
C14_In(fac) ==
    /\ \A i \in Slots :
          LET n == NumSlots + 1 IN
          MapValOn(fac, "boom", i)
          => /\ last'[fac].kind = "throw" <=> Returned(fac, heap[fac][i])
             /\ Pending(fac, heap[fac][i]) => last'[fac].kind = "ret"
             /\ last'[fac].kind = "throw"
                => /\ last'[fac].v = Error("test", nextId[fac])
                   /\ ~heap'[fac][n].live
                   /\ heap[fac] = SubSeq(heap'[fac], 1, NumSlots)
                   /\ \A k \in 1..n : heap'[fac][k].exc # last'[fac].v
    /\ \A y \in Slots :
          (/\ Forced(fac, y) /\ hist[fac][y].op = "mapVal"
           /\ Pending(fac, heap[fac][y]) /\ heap[fac][y].sus.f = "boom")
          => LET r == force(fac, World(fac), heap[fac][y].sus.of) IN
             r.kind = "ret"
             => /\ last'[fac].kind = "throw"
                /\ last'[fac].v = Error("test", r.w.nextId)
                /\ heap'[fac][y].exc = last'[fac].v

C14_MapValTiming == [][\A fac \in Facades : C14_In(fac)]_vars

\* C15: mapVal on a Failed receiver.  When x is Failed with e, mapVal(f, x)
\* returns, calls neither f nor any computation, leaves the existing cells
\* alone and returns the Pending cell of map(f, x); forcing that cell while
\* x is Failed raises the object x holds, calls nothing and leaves x alone.
C15_In(fac) ==
    /\ \A f \in Fns, i \in Slots :
          LET n == NumSlots + 1 IN
          (MapValOn(fac, f, i) /\ Failed(fac, heap[fac][i]))
          => /\ last'[fac].kind = "ret"
             /\ log'[fac] = log[fac] /\ nextId'[fac] = nextId[fac]
             /\ calls'[fac] = Append(calls[fac], 0)
             /\ fcalls'[fac] = Append(fcalls[fac], 0)
             /\ heap[fac] = SubSeq(heap'[fac], 1, NumSlots)
             /\ Pending(fac, heap'[fac][n])
             /\ heap'[fac][n].sus = Compose(f, i)
    /\ \A y \in Slots :
          (/\ Forced(fac, y) /\ hist[fac][y].op = "mapVal"
           /\ Pending(fac, heap[fac][y])
           /\ Failed(fac, heap[fac][heap[fac][y].sus.of]))
          => LET x == heap[fac][y].sus.of IN
             /\ last'[fac].kind = "throw" /\ last'[fac].v = heap[fac][x].exc
             /\ fcalls'[fac] = fcalls[fac] /\ log'[fac] = log[fac]
             /\ calls'[fac] = [calls[fac] EXCEPT ![y] = 1]
             /\ heap'[fac][x] = heap[fac][x]
             /\ Failed(fac, heap'[fac][y]) /\ heap'[fac][y].exc = heap[fac][x].exc

C15_MapValFailed == [][\A fac \in Facades : C15_In(fac)]_vars

\* mapVal(f, x) has just returned a Pending cell for an x that the caller
\* had forced and that is Failed, f not called, in every facade
C15_Witness ==
    \A fac \in Facades :
        /\ NumSlots = 2 /\ heap[fac][2].live
        /\ last[fac].op = "mapVal" /\ last[fac].cell = 2 /\ last[fac].kind = "ret"
        /\ hist[fac][1].op = "Lazy" /\ hist[fac][1].kind = "throw"
        /\ Failed(fac, heap[fac][1]) /\ Pending(fac, heap[fac][2])
        /\ heap[fac][2].sus.of = 1
        /\ fcalls[fac] = <<0, 0>> /\ calls[fac] = <<1, 0>>

\* C16: the equivalence law of mapVal.  Whenever mapVal(f, x) returns a
\* cell, isVal of that cell is isVal of x as it was at the call, whether x
\* was Pending, Done or Failed and whatever f returned.
C16_In(fac) ==
    \A f \in Fns, i \in Slots :
        (MapValOn(fac, f, i) /\ last'[fac].kind = "ret")
        => (isVal(fac, heap'[fac][NumSlots + 1]) <=> isVal(fac, heap[fac][i]))

C16_MapValLaw == [][\A fac \in Facades : C16_In(fac)]_vars

\* what the caller of facade fac can observe: what the latest call handed
\* back (returned value, raised object, isVal answer) and how often each
\* computation and each mapped function has run
Observable(fac) == <<last[fac], calls[fac], fcalls[fac]>>

\* C17: facade parity.  After every sequence of Lazy, fromVal, force, map,
\* mapVal and isVal calls, made alike on the functional facade and on the
\* object facades, the latest call has handed back the same thing (the same
\* returned value, the same raised object, the same isVal answer) and every
\* computation and mapped function has run the same number of times.
C17_FacadeParity == \A fac \in Facades : Observable(fac) = Observable("FP")

\* C18: error normalisation.  When the computation of a Pending cell raises
\* an object that is not an error object, force records in the cell and
\* raises a new error object whose message is the string of the raised
\* object; when it raises an error object, force records and raises that
\* very object.  Every later force of the cell raises the recorded object.
C18_In(fac) ==
    \A i \in Slots :
        Forced(fac, i) =>
            LET r == invoke(fac, World(fac), i) IN
            /\ (Pending(fac, heap[fac][i]) /\ r.kind = "throw")
               => /\ last'[fac].kind = "throw"
                  /\ heap'[fac][i].exc = last'[fac].v
                  /\ Failed(fac, heap'[fac][i])
                  /\ instanceofError(r.v) => last'[fac].v = r.v
                  /\ ~instanceofError(r.v)
                     => /\ instanceofError(last'[fac].v)
                        /\ last'[fac].v.msg = String(r.v)
                        /\ last'[fac].v.id = r.w.nextId
            /\ Failed(fac, heap[fac][i])
               => /\ last'[fac].kind = "throw"
                  /\ last'[fac].v = heap[fac][i].exc
                  /\ heap'[fac][i] = heap[fac][i]

C18_ErrorNormalization == [][\A fac \in Facades : C18_In(fac)]_vars

\* a cell object with none of its three fields set
Hollow(fac) == Cell(NoClosure(Empty(fac).tag), Empty(fac), Empty(fac))

\* C19: corrupted state.  Forcing a cell that holds no computation, no
\* value and no error makes a new Lazy.Undefined error, records it in the
\* cell and raises it; the cell is then Failed, and every later force
\* raises that same object and makes no other.  This holds of the cells
\* the callers have made and of a cell object with no field set put in a
\* free slot, in every facade.
C19_In(fac) ==
    /\ \A i \in Slots :
          Forced(fac, i) =>
             /\ Holds(fac, heap[fac][i]) = {}
                => /\ last'[fac].kind = "throw"
                   /\ last'[fac].v = Undefined("expected computation, but got a value",
                                               nextId[fac])
                   /\ heap'[fac] = [heap[fac] EXCEPT ![i].exc = last'[fac].v]
                   /\ Failed(fac, heap'[fac][i])
             /\ (Failed(fac, heap[fac][i]) /\ heap[fac][i].exc.tag = "Lazy.Undefined")
                => /\ last'[fac].kind = "throw"
                   /\ last'[fac].v = heap[fac][i].exc
                   /\ heap'[fac] = heap[fac] /\ nextId'[fac] = nextId[fac]
    /\ NumSlots < MaxCells =>
          LET n == NumSlots + 1
              first == force(fac, alloc(World(fac), Hollow(fac)), n)
              second == force(fac, first.w, n)
          IN  /\ first.kind = "throw"
              /\ first.v = Undefined("expected computation, but got a value",
                                     nextId[fac])
              /\ first.w.heap = Append(heap[fac], [Hollow(fac) EXCEPT !.exc = first.v])
              /\ Failed(fac, first.w.heap[n])
              /\ second.kind = "throw" /\ second.v = first.v /\ second.w = first.w

C19_CorruptedState == [][\A fac \in Facades : C19_In(fac)]_vars

\* a cell of class Lazy that holds nothing (made from the value undefined)
\* has been forced twice and has raised the one Lazy.Undefined it holds
C19_Witness ==
    /\ NumSlots >= 1 /\ heap["Lazy"][1].live
    /\ hist["Lazy"][1].op = "fromVal" /\ hist["Lazy"][1].kind = "throw"
    /\ hist["Lazy"][1].again
    /\ last["Lazy"].op = "force" /\ last["Lazy"].cell = 1
    /\ last["Lazy"].kind = "throw" /\ last["Lazy"].v.tag = "Lazy.Undefined"
    /\ last["Lazy"].v = hist["Lazy"][1].v
    /\ heap["Lazy"][1].exc = last["Lazy"].v
    /\ nextId["Lazy"] = 2

\* C20: observational equivalence of fromVal.  The cell x = Lazy(() => v)
\* is, once its first force has returned, the very cell fromVal(v) makes:
\* the same fields hold the same things, so that force, isVal, map and
\* mapVal cannot tell the two apart.  For the cell fromVal made no
\* computation ever runs, and it cannot fail: every force of it returns v
\* and changes nothing.
C20_In(fac) ==
    \A i \in Slots :
        /\ (/\ Forced(fac, i) /\ hist[fac][i].op = "Lazy"
            /\ Pending(fac, heap[fac][i]) /\ last'[fac].kind = "ret")
           => /\ heap'[fac][i] = fromVal(fac, last'[fac].v)
              /\ calls'[fac][i] = 1
        /\ (heap[fac][i].live /\ hist[fac][i].op = "fromVal")
           => /\ calls[fac][i] = 0 /\ fcalls[fac][i] = 0
              /\ Forced(fac, i)
                 => /\ last'[fac].kind = "ret"
                    /\ heap[fac][i] = fromVal(fac, last'[fac].v)
                    /\ heap'[fac] = heap[fac] /\ log'[fac] = log[fac]
                    /\ calls'[fac] = calls[fac] /\ fcalls'[fac] = fcalls[fac]

C20_FromValEquivalence == [][\A fac \in Facades : C20_In(fac)]_vars

\* C21: recursive self-forcing.  When the computation of a Pending cell is
\* () => force(x), x the cell itself, the force of the cell raises a
\* Lazy.Undefined error.
C21_In(fac) ==
    \A i \in Slots :
        (/\ Forced(fac, i) /\ Pending(fac, heap[fac][i])
         /\ heap[fac][i].sus = Thunk("self", None))
        => /\ last'[fac].kind = "throw"
           /\ last'[fac].v.tag = "Lazy.Undefined"

C21_SelfForcing == [][\A fac \in Facades : C21_In(fac)]_vars

\* the world of facade fac after the step
WorldAfter(fac) == [heap |-> heap'[fac], calls |-> calls'[fac], fcalls |-> fcalls'[fac],
                    log |-> log'[fac], nextId |-> nextId'[fac]]

\* C22: the transition comes before the return or the raise.  When the
\* first force of a Pending cell hands control back, the cell holds what
\* was returned or raised and no longer holds its computation; it is Done
\* or Failed, not Pending, and a force made at once by the caller hands
\* back the same thing and runs nothing.
C22_In(fac) ==
    \A i \in Slots :
        (Forced(fac, i) /\ Pending(fac, heap[fac][i]))
        => LET x == heap'[fac][i]
               nxt == force(fac, WorldAfter(fac), i)
           IN  /\ ~isSuspension(fac, x) /\ ~Pending(fac, x)
               /\ last'[fac].kind = "ret" => (Done(fac, x) /\ x.val = last'[fac].v)
               /\ last'[fac].kind = "throw" => (Failed(fac, x) /\ x.exc = last'[fac].v)
               /\ nxt.kind = last'[fac].kind /\ nxt.v = last'[fac].v
               /\ nxt.w = WorldAfter(fac)

C22_TransitionFirst == [][\A fac \in Facades : C22_In(fac)]_vars

RECURSIVE Chain(_, _)

\* the cells a force of the cell of slot y can reach: the cell itself and,
\* as long as it holds the closure of map or mapVal, those its operand reaches
Chain(fac, y) ==
    LET s == heap[fac][y].sus IN
    IF s.tag = "compose" THEN {y} \cup Chain(fac, s.of) ELSE {y}

\* C23: composition never changes its operand.  A map or mapVal step
\* leaves every cell there was, the operand among them, as it was, whether
\* the operand was Pending, Done or Failed, whether mapVal applied f at
\* once and whether f raised there; and a cell only ever changes in a
\* force step, of itself or of a cell derived from it.
C23_In(fac) ==
    /\ last'[fac].op \in {"map", "mapVal"}
       => /\ heap[fac] = SubSeq(heap'[fac], 1, NumSlots)
          /\ calls[fac] = SubSeq(calls'[fac], 1, NumSlots)
    /\ \A i \in Slots :
          heap'[fac][i] # heap[fac][i]
          => /\ last'[fac].op = "force"
             /\ i \in Chain(fac, last'[fac].cell)

C23_OperandUnchanged == [][\A fac \in Facades : C23_In(fac)]_vars

\* mapVal(f, x) has just raised the error of f on a Done x, which is as it
\* was, in every facade
C23_Witness ==
    \A fac \in Facades :
        /\ NumSlots = 2 /\ ~heap[fac][2].live
        /\ last[fac].op = "mapVal" /\ last[fac].kind = "throw"
        /\ hist[fac][1].op = "Lazy" /\ hist[fac][1].kind = "ret"
        /\ Done(fac, heap[fac][1]) /\ heap[fac][1].val = hist[fac][1].v
        /\ fcalls[fac] = <<0, 1>> /\ calls[fac] = <<1, 0>>

\* C24: memoization is kept through composition.  With cells derived from
\* one source x by map and mapVal and forced in any order, any number of
\* times, the computation of x runs once at most, and runs when the first
\* derived cell that needs x is forced; every derived cell is given the
\* value x has (the one its computation returned) or raises the error
\* object x holds, and x is as it was once it has its outcome.
C24_In(fac) ==
    /\ NumSlots >= 1 =>
          /\ calls'[fac][1] <= 1
          /\ hist[fac][1].op = "fromVal" => calls'[fac][1] = 0
    /\ \A f \in Fns :
          (DeriveMapVal(f) /\ Returned(fac, heap[fac][1]))
          => LET n == NumSlots + 1
                 a == apply(alloc(World(fac), NoCell), n, f, heap[fac][1].val)
             IN  /\ last'[fac].kind = a.kind
                 /\ a.kind = "ret" => heap'[fac][n].val = a.v
                 /\ heap'[fac][1] = heap[fac][1] /\ calls'[fac][1] = calls[fac][1]
    /\ \A y \in Slots \ {1} :
          (Forced(fac, y) /\ Pending(fac, heap[fac][y]))
          => LET x == heap[fac][1]
                 f == heap[fac][y].sus.f
                 r == invoke(fac, World(fac), 1)
                 a == apply(IF Pending(fac, x) THEN r.w ELSE World(fac), y, f,
                            IF Pending(fac, x) THEN r.v ELSE x.val)
             IN  /\ heap[fac][y].sus.of = 1
                 /\ (Pending(fac, x) /\ r.kind = "throw")
                    => /\ calls'[fac][1] = 1 /\ fcalls'[fac][y] = 0
                       /\ last'[fac].kind = "throw"
                       /\ last'[fac].v = heap'[fac][1].exc
                 /\ (Pending(fac, x) /\ r.kind = "ret")
                    => /\ calls'[fac][1] = 1
                       /\ heap'[fac][1].val = r.v
                       /\ last'[fac].kind = a.kind /\ last'[fac].v = a.v
                 /\ Returned(fac, x)
                    => /\ calls'[fac][1] = calls[fac][1]
                       /\ heap'[fac][1] = heap[fac][1]
                       /\ last'[fac].kind = a.kind /\ last'[fac].v = a.v
                 /\ Failed(fac, x)
                    => /\ calls'[fac][1] = calls[fac][1]
                       /\ heap'[fac][1] = heap[fac][1]
                       /\ last'[fac].kind = "throw" /\ last'[fac].v = x.exc
    /\ \A y \in Slots \ {1} :
          (Forced(fac, y) /\ ~Pending(fac, heap[fac][y]))
          => calls'[fac] = calls[fac] /\ fcalls'[fac] = fcalls[fac]

C24_SharedSource == [][\A fac \in Facades : C24_In(fac)]_vars

\* the slots of the cells map and mapVal made
Derived(fac) ==
    {y \in Slots : heap[fac][y].live /\ hist[fac][y].op \in {"map", "mapVal"}}

\* C25: a failure of f at force time is kept in the derived cell only.
\* When the Pending cell y = map(f, x) or mapVal(f, x) is forced, x gives
\* its value v and f raises on it, the force raises the error of f, y is
\* Failed with that object and f has run once, while x is Done with v and a
\* force of x returns v.  A later force of y raises the object y holds,
\* does not call f and changes no cell.
C25_In(fac) ==
    \A y \in Derived(fac) :
        Forced(fac, y) =>
           /\ (Pending(fac, heap[fac][y]) /\ heap[fac][y].sus.f = "boom")
              => LET x == heap[fac][y].sus.of
                     r == force(fac, World(fac), x)
                     again == force(fac, WorldAfter(fac), x)
                 IN  r.kind = "ret"
                     => /\ last'[fac].kind = "throw"
                        /\ last'[fac].v = Error("test", r.w.nextId)
                        /\ Failed(fac, heap'[fac][y])
                        /\ heap'[fac][y].exc = last'[fac].v
                        /\ fcalls'[fac][y] = 1
                        /\ Done(fac, heap'[fac][x]) /\ heap'[fac][x].val = r.v
                        /\ ~isException(fac, heap'[fac][x])
                        /\ again.kind = "ret" /\ again.v = r.v
                        /\ again.w = WorldAfter(fac)
           /\ Failed(fac, heap[fac][y])
              => /\ last'[fac].kind = "throw" /\ last'[fac].v = heap[fac][y].exc
                 /\ fcalls'[fac] = fcalls[fac] /\ calls'[fac] = calls[fac]
                 /\ heap'[fac] = heap[fac]

C25_FailureOfF == [][\A fac \in Facades : C25_In(fac)]_vars

\* C26: forcing a receiver evaluates no cell derived from it.  A force of
\* x calls f of no cell y = map(f, x) or mapVal(f, x) that is Pending and
\* leaves every such y as it is: Pending, with isVal false.
C26_In(fac) ==
    \A x \in Slots :
        Forced(fac, x) =>
            \A y \in Derived(fac) :
                (Pending(fac, heap[fac][y]) /\ heap[fac][y].sus.of = x)
                => /\ heap'[fac][y] = heap[fac][y]
                   /\ Pending(fac, heap'[fac][y]) /\ ~isVal(fac, heap'[fac][y])
                   /\ fcalls'[fac][y] = fcalls[fac][y]
                   /\ calls'[fac][y] = calls[fac][y]

C26_DerivedStayPending == [][\A fac \in Facades : C26_In(fac)]_vars

\* x has just been forced, and has value 0, after y = mapVal(f, x) was made
\* from the Pending x: y is still Pending and f has not run, in every facade
C26_Witness ==
    \A fac \in Facades :
        /\ NumSlots = 2 /\ heap[fac][2].live
        /\ hist[fac][2].op = "mapVal" /\ hist[fac][2].kind = "none"
        /\ Pending(fac, heap[fac][2]) /\ heap[fac][2].sus.of = 1
        /\ last[fac].op = "force" /\ last[fac].cell = 1
        /\ hist[fac][1].op = "Lazy" /\ hist[fac][1].kind = "ret"
        /\ hist[fac][1].v = Num(0) /\ ~hist[fac][1].again
        /\ calls[fac] = <<1, 0>> /\ fcalls[fac] = <<0, 0>>

\* C27: the outcome is stable under re-entrant forcing.  A force of a cell
\* that the caller has forced before hands back what the first force handed
\* back: the same value, or the same raised object, never the other kind.
\* And when the computation of a Pending cell forces the cell itself, the
\* force that is still running leaves in the cell, and hands back, the
\* outcome the inner force recorded.
C27_In(fac) ==
    \A i \in Slots :
        Forced(fac, i) =>
           /\ hist[fac][i].kind # "none"
              => /\ last'[fac].kind = hist[fac][i].kind
                 /\ last'[fac].v = hist[fac][i].v
           /\ (Pending(fac, heap[fac][i]) /\ heap[fac][i].sus \in SelfThunks)
              => LET entered == [World(fac) EXCEPT !.calls[i] = @ + 1,
                                                   !.log = Append(@, <<"x", i>>)]
                     inner == force(fac, entered, i)
                 IN  /\ heap'[fac][i] = inner.w.heap[i]
                     /\ last'[fac].kind = inner.kind /\ last'[fac].v = inner.v

C27_OutcomeStable == [][\A fac \in Facades : C27_In(fac)]_vars

\* the log after x's part lo, followed by the first k of the entries es
Followed(lo, es, k) == lo \o SubSeq(es, 1, k)

\* C28: the composition law of map.  With y = map(f, x), z = map(g, y) and
\* u = map(h, x), h = v => g(f(v)), all three Pending, a force of z and a
\* force of u made in the same state hand back the same thing (the same
\* value, or the same raised object) and leave x the same; the force of z
\* runs the computation of x, f and g once each at most and in that order,
\* after what the force of x alone does, and the force of u makes as many
\* calls of h.
C28_In(fac) ==
    (/\ NumSlots = 4 /\ last'[fac].op = "force" /\ last'[fac].cell \in {3, 4}
     /\ \A i \in {2, 3, 4} : Pending(fac, heap[fac][i]))
    => LET z == force(fac, World(fac), 3)
           u == force(fac, World(fac), 4)
           x == force(fac, World(fac), 1)
           done == IF last'[fac].cell = 3 THEN z ELSE u
       IN  /\ last'[fac].kind = done.kind /\ last'[fac].v = done.v
           /\ heap'[fac] = done.w.heap
           /\ z.kind = u.kind /\ z.v = u.v
           /\ z.w.heap[1] = u.w.heap[1] /\ z.w.heap[1] = x.w.heap[1]
           /\ z.w.calls[1] <= 1 /\ z.w.calls[1] = u.w.calls[1]
           /\ z.w.fcalls[2] <= 1 /\ z.w.fcalls[3] <= 1
           /\ \E k \in 0..2 :
                 /\ z.w.log = Followed(x.w.log, << <<"f", 2>>, <<"f", 3>> >>, k)
                 /\ u.w.log = Followed(x.w.log, << <<"f", 4>>, <<"f", 4>> >>, k)
                 /\ k = 0 <=> x.kind = "throw"
                 /\ z.kind = "ret" => k = 2

\* The same when one of the two was forced earlier than the other: the
\* later force hands back what the earlier one did, a raised object being
\* the same object when it is the one x holds and an equal one otherwise.
C28_Later(fac) ==
    \A c \in {3, 4} :
        LET o == 7 - c IN
        (/\ NumSlots = 4 /\ Forced(fac, c) /\ Pending(fac, heap[fac][c])
         /\ hist[fac][o].kind # "none")
        => /\ last'[fac].kind = hist[fac][o].kind
           /\ [last'[fac].v EXCEPT !.id = 0] = [hist[fac][o].v EXCEPT !.id = 0]
           /\ Failed(fac, heap'[fac][1]) => last'[fac].v = hist[fac][o].v

C28_CompositionLaw == [][\A fac \in Facades : C28_In(fac) /\ C28_Later(fac)]_vars

\* the step just taken was the one in which force on the cell of slot i,
\* called by the caller, handed back
Completed(fac, i) ==
    stack[fac] # <<>> /\ stack'[fac] = <<>> /\ stack[fac][1].cell = i

\* every force that is running hands back, in every facade
C29_Terminates == ~Idle ~> Idle

\* the calls of force that are running go down the chain, and when the
\* force the caller made hands back, returning or raising, every cell from
\* the source up to the forced cell is Done or Failed, none Pending
C29_In(fac) ==
    /\ \A k \in 1..Len(stack[fac]) :
          /\ stack[fac][k].cell \in Slots
          /\ k > 1 => stack[fac][k].cell < stack[fac][k - 1].cell
    /\ \A i \in Slots :
          Completed(fac, i)
          => /\ last'[fac].op = "force" /\ last'[fac].cell = i
             /\ last'[fac].kind \in {"ret", "throw"}
             /\ \A k \in 1..i :
                   heap'[fac][k].live
                   => /\ Done(fac, heap'[fac][k]) \/ Failed(fac, heap'[fac][k])
                      /\ ~Pending(fac, heap'[fac][k])

\* C29: forcing a chain terminates.  In a chain of cells made by map and
\* mapVal over one source, with computations and functions that return or
\* raise and force no cell, every force that is called hands back, by
\* returning or by raising, and then every cell from the source up to the
\* forced cell is Done or Failed and none is Pending.
C29_ChainTermination ==
    C29_Terminates /\ [][\A fac \in Facades : C29_In(fac)]_vars

====
